---- MODULE Spec2Model ----
(***************************************************************************)
(* Model of the finance tracker backend (backend/main.py, revision         *)
(* main_20250909155147.py, with edit_transaction from the later revision   *)
(* main_20250909234646.py): the command parser, the command handler, the   *)
(* budget / recurring-rule endpoints and the recurrence scheduler, over a  *)
(* store of transactions, budgets and recurring rules.                     *)
(*                                                                         *)
(* Representation.                                                         *)
(*   text      a sequence of one-character strings                         *)
(*   amount    an integer number of cents (42.50 is 4250)                  *)
(*   date      <<year, month, day>>, compared lexicographically            *)
(*   datetime  <<year, month, day, tod>>, tod a time of day in 0 .. 3      *)
(*             (0 = 00:00:00, 1 = during the day, 2 = 23:59:59,            *)
(*             3 = 23:59:59 and some microseconds)                         *)
(*   table     a set of rows; the integer primary key of a new row is      *)
(*             SQLite's rowid: one more than the largest id in the table   *)
(***************************************************************************)
EXTENDS Integers, Sequences, FiniteSets, TLC

(***************************************************************************)
(* Bounds of the model.                                                    *)
(***************************************************************************)
MaxTx == 2          \* stored transactions
MaxRules == 2       \* stored recurring rules
MaxId == 3          \* largest primary key handed out
MaxListed == 51     \* stored transactions when the list is asked for

Workers == {1, 2}   \* requests that may be in progress at once

\* the instants the clock takes, in order
ClockInstants ==
    << <<2023, 12, 31, 1>>, <<2024, 1, 31, 1>>, <<2024, 3, 1, 1>> >>

(***************************************************************************)
(* Characters and text.                                                    *)
(***************************************************************************)
Digits == <<"0", "1", "2", "3", "4", "5", "6", "7", "8", "9">>

Uppers == <<"A","B","C","D","E","F","G","H","I","J","K","L","M",
            "N","O","P","Q","R","S","T","U","V","W","X","Y","Z">>

Lowers == <<"a","b","c","d","e","f","g","h","i","j","k","l","m",
            "n","o","p","q","r","s","t","u","v","w","x","y","z">>

Range(s) == {s[i] : i \in DOMAIN s}

DigitChars == Range(Digits)

UpperChars == Range(Uppers)

LetterChars == Range(Uppers) \cup Range(Lowers)

IsDigit(c) == c \in DigitChars

\* SUPERSCRIPT TWO (U+00B2), written as one token: a character of Unicode
\* type "digit" that is not a decimal digit. str.isdigit() and \w accept
\* it; \d, int() and float() do not.
SuperTwo == "^2"

DigitVal(c) == (CHOOSE i \in DOMAIN Digits : Digits[i] = c) - 1

IsLetter(c) == c \in LetterChars

\* \s of the regex engine and the characters str.strip() removes
IsSpace(c) == c \in {" ", "\t", "\n"}

\* \w of the regex engine: letters, digits and the underscore
IsWordChar(c) == IsLetter(c) \/ IsDigit(c) \/ c = "_" \/ c = SuperTwo

\* the class [a-zA-Z0-9 _-] of the category pattern
IsCatChar(c) == IsLetter(c) \/ IsDigit(c) \/ c \in {" ", "_", "-"}

LowerChar(c) ==
    IF c \in UpperChars
    THEN Lowers[CHOOSE i \in DOMAIN Uppers : Uppers[i] = c]
    ELSE c

\* str.lower()
Lower(text) == [i \in DOMAIN text |-> LowerChar(text[i])]

\* word in text  (substring test)
StartsAt(text, word, i) ==
    /\ i + Len(word) - 1 <= Len(text)
    /\ \A k \in 1..Len(word) : text[i + k - 1] = word[k]

Contains(text, word) == \E i \in 1..Len(text) : StartsAt(text, word, i)

\* str.strip()
Strip(text) ==
    LET keep == {i \in DOMAIN text : ~IsSpace(text[i])}
    IN  IF keep = {} THEN <<>>
        ELSE LET lo == CHOOSE i \in keep : \A j \in keep : i <= j
                 hi == CHOOSE i \in keep : \A j \in keep : j <= i
             IN  SubSeq(text, lo, hi)

\* the end of the longest run of characters satisfying P that starts at i
\* (i - 1 when text[i] does not satisfy it)
DigitRunEnd(text, i) ==
    CHOOSE j \in (i-1)..Len(text) :
        /\ \A k \in i..j : IsDigit(text[k])
        /\ (j = Len(text) \/ ~IsDigit(text[j + 1]))

CatRunEnd(text, i) ==
    CHOOSE j \in (i-1)..Len(text) :
        /\ \A k \in i..j : IsCatChar(text[k])
        /\ (j = Len(text) \/ ~IsCatChar(text[j + 1]))

\* int(digits)
RECURSIVE IntOf(_)
IntOf(ds) ==
    IF ds = <<>> THEN 0
    ELSE 10 * IntOf(SubSeq(ds, 1, Len(ds) - 1)) + DigitVal(ds[Len(ds)])

(***************************************************************************)
(* Calendar: datetime.date, datetime.timedelta and calendar.monthrange.    *)
(***************************************************************************)
isleap(y) == y % 4 = 0 /\ (y % 100 # 0 \/ y % 400 = 0)

mdays == <<31, 28, 31, 30, 31, 30, 31, 31, 30, 31, 30, 31>>

\* calendar.monthrange(y, m)[1]
monthrange(y, m) == mdays[m] + (IF m = 2 /\ isleap(y) THEN 1 ELSE 0)

RECURSIVE days_before_month(_, _)
days_before_month(y, m) ==
    IF m = 1 THEN 0 ELSE days_before_month(y, m - 1) + monthrange(y, m - 1)

days_before_year(y) ==
    (y - 1) * 365 + ((y - 1) \div 4) - ((y - 1) \div 100) + ((y - 1) \div 400)

\* date.toordinal()
toordinal(d) == days_before_year(d[1]) + days_before_month(d[1], d[2]) + d[3]

\* date.fromordinal(n)
fromordinal(n) ==
    LET y == CHOOSE yy \in (n \div 366)..(n \div 365 + 1) :
                 days_before_year(yy) < n /\ n <= days_before_year(yy + 1)
        r == n - days_before_year(y)
        m == CHOOSE mm \in 1..12 :
                 /\ days_before_month(y, mm) < r
                 /\ r <= days_before_month(y, mm) + monthrange(y, mm)
    IN  <<y, m, r - days_before_month(y, m)>>

\* date + timedelta(days = n)
date_add_days(d, n) == fromordinal(toordinal(d) + n)

\* a < b and a <= b on dates and datetimes (tuples of equal length)
RECURSIVE TupleLT(_, _)
TupleLT(a, b) ==
    /\ a # <<>>
    /\ \/ Head(a) < Head(b)
       \/ Head(a) = Head(b) /\ TupleLT(Tail(a), Tail(b))

TupleLE(a, b) == a = b \/ TupleLT(a, b)

\* datetime.combine(d, datetime.min.time())
combine_midnight(d) == <<d[1], d[2], d[3], 0>>

\* datetime.date()
date_of(dt) == <<dt[1], dt[2], dt[3]>>

(***************************************************************************)
(* Optional values: None is the empty tuple, a present value v is <<v>>.   *)
(* A date column that is NULL is the empty tuple as well.                  *)
(***************************************************************************)
None == <<>>

Some(v) == <<v>>

(***************************************************************************)
(* parse_command: the rule-based parser.                                   *)
(***************************************************************************)
\* a search that gives the last numeral of the text
amt_match_last(text) ==
    LET starts == {i \in DOMAIN text :
                      IsDigit(text[i]) /\ (i = 1 \/ ~IsDigit(text[i - 1]))}
    IN  IF starts = {} THEN <<>>
        ELSE LET i == CHOOSE k \in starts : \A l \in starts : l <= k
                 j == DigitRunEnd(text, i)
             IN  SubSeq(text, i, j)

\* re.search(r"(\d+(\.\d{1,2})?)", text): the matched text, <<>> without a match
amt_match(text) ==
    LET starts == {i \in DOMAIN text : IsDigit(text[i])}
    IN  IF starts = {} THEN <<>>
        ELSE LET i == CHOOSE k \in starts : \A l \in starts : k <= l
                 j == DigitRunEnd(text, i)
                 frac == IF /\ j + 2 <= Len(text)
                            /\ text[j + 1] = "."
                            /\ IsDigit(text[j + 2])
                         THEN IF j + 3 <= Len(text) /\ IsDigit(text[j + 3])
                              THEN 3 ELSE 2
                         ELSE 0
             IN  SubSeq(text, i, j + frac)

\* float(m) of a matched numeral, in cents
float_cents(m) ==
    LET dots == {i \in DOMAIN m : m[i] = "."}
    IN  IF dots = {} THEN 100 * IntOf(m)
        ELSE LET p == CHOOSE i \in dots : TRUE
                 f == SubSeq(m, p + 1, Len(m))
             IN  100 * IntOf(SubSeq(m, 1, p - 1))
                 + (IF Len(f) = 1 THEN 10 * IntOf(f) ELSE IntOf(f))

\* the group of (?:prep1|prep2)\s+([a-zA-Z0-9 _-]+) when the pattern matches
\* with the preposition starting at i: \s+ is greedy and gives back spaces
\* until a character of the class follows; <<>> when there is no match at i
cat_group_at(text, preps, i) ==
    LET hit == {w \in preps : StartsAt(text, w, i)}
    IN  IF hit = {} THEN <<>>
        ELSE LET p  == i + Len(CHOOSE w \in hit : TRUE)
                 ks == {k \in 1..(Len(text) - p) :
                           /\ \A l \in 0..(k - 1) : IsSpace(text[p + l])
                           /\ IsCatChar(text[p + k])}
             IN  IF ks = {} THEN <<>>
                 ELSE LET k == CHOOSE a \in ks : \A b \in ks : b <= a
                      IN  SubSeq(text, p + k, CatRunEnd(text, p + k))

\* cat_match.group(1).strip() if cat_match else default
cat_match(text, preps, default) ==
    LET at == {i \in DOMAIN text : cat_group_at(text, preps, i) # <<>>}
    IN  IF at = {} THEN default
        ELSE Strip(cat_group_at(text, preps,
                                CHOOSE i \in at : \A j \in at : i <= j))

W_spent == <<"s","p","e","n","t">>
W_bought == <<"b","o","u","g","h","t">>
W_pay == <<"p","a","y">>
W_purchase == <<"p","u","r","c","h","a","s","e">>
W_earned == <<"e","a","r","n","e","d">>
W_salary == <<"s","a","l","a","r","y">>
W_received == <<"r","e","c","e","i","v","e","d">>
W_summary == <<"s","u","m","m","a","r","y">>
W_balance == <<"b","a","l","a","n","c","e">>
W_list == <<"l","i","s","t">>
W_transactions == <<"t","r","a","n","s","a","c","t","i","o","n","s">>
W_delete == <<"d","e","l","e","t","e">>
W_remove == <<"r","e","m","o","v","e">>
W_on == <<"o","n">>
W_for == <<"f","o","r">>
W_from == <<"f","r","o","m">>
W_general == <<"g","e","n","e","r","a","l">>
W_income == <<"i","n","c","o","m","e">>

ExpenseWords == {W_spent, W_bought, W_pay, W_purchase}

IncomeWords == {W_earned, W_salary, W_received}

\* str.isdigit(): non-empty and every character of Unicode type "digit"
isdigit(text) ==
    /\ text # <<>>
    /\ \A i \in DOMAIN text : IsDigit(text[i]) \/ text[i] = SuperTwo

\* what parse_command gives when int() rejects its argument: the exception
\* leaves parse_command and handle_command
ValueError == [raised |-> "ValueError"]

\* int(text) raises ValueError unless every character is a decimal digit
int_raises(text) == \E i \in DOMAIN text : ~IsDigit(text[i])

\* a parser that falls back to the amount 0 when the text holds no numeral
parse_amount_default_zero(text) ==
    IF amt_match(text) = <<>> THEN Some(0) ELSE Some(float_cents(amt_match(text)))

parse_amount(text) ==
    IF amt_match(text) = <<>> THEN None ELSE Some(float_cents(amt_match(text)))

parse_command(raw) ==
    LET text == Lower(raw)
    IN  IF \E w \in ExpenseWords : Contains(text, w)
        THEN [intent |-> "add", amount |-> parse_amount(text),
              category |-> cat_match(text, {W_on, W_for}, W_general),
              description |-> text]
        ELSE IF \E w \in IncomeWords : Contains(text, w)
        THEN [intent |-> "add_income", amount |-> parse_amount(text),
              category |-> cat_match(text, {W_from, W_for}, W_income),
              description |-> text]
        ELSE IF Contains(text, W_summary) \/ Contains(text, W_balance)
        THEN [intent |-> "summary"]
        ELSE IF Contains(text, W_list) \/ Contains(text, W_transactions)
        THEN [intent |-> "list"]
        ELSE IF Contains(text, W_delete) \/ Contains(text, W_remove)
        THEN [intent |-> "delete"]
        ELSE IF isdigit(Strip(text)) /\ Len(Strip(text)) < 7
        THEN IF int_raises(Strip(text)) THEN ValueError
             ELSE [intent |-> "get_tx", txid |-> IntOf(Strip(text))]
        ELSE [intent |-> "unknown"]

\* an id taken from the first digits of the text, as the amount is
id_match_first_digits(text) ==
    LET starts == {i \in DOMAIN text : IsDigit(text[i])}
    IN  IF starts = {} THEN <<>>
        ELSE LET i == CHOOSE k \in starts : \A l \in starts : k <= l
             IN  SubSeq(text, i, DigitRunEnd(text, i))

\* re.search(r"\b(\d{1,6})\b", text): the first run of one to six digits with
\* a word boundary on both sides; <<>> without a match
id_match(text) ==
    LET ok == {i \in DOMAIN text :
                  /\ IsDigit(text[i])
                  /\ (i = 1 \/ ~IsWordChar(text[i - 1]))
                  /\ DigitRunEnd(text, i) - i + 1 <= 6
                  /\ (DigitRunEnd(text, i) = Len(text)
                      \/ ~IsWordChar(text[DigitRunEnd(text, i) + 1]))}
    IN  IF ok = {} THEN <<>>
        ELSE LET i == CHOOSE k \in ok : \A l \in ok : k <= l
             IN  SubSeq(text, i, DigitRunEnd(text, i))

(***************************************************************************)
(* State.                                                                  *)
(***************************************************************************)
VARIABLES
    transactions,   \* table "transactions"
    budgets,        \* table "budgets"
    goals,          \* table "goals"
    recurring,      \* table "recurring"
    now,            \* the clock: datetime.utcnow(), date.today()
    response,       \* the response to the request handled last
    sess            \* the open sessions of the requests in progress

tables == <<transactions, budgets, goals, recurring>>

vars == <<transactions, budgets, goals, recurring, now, response, sess>>

today == date_of(now)

Ids(table) == {r.id : r \in table}

\* the primary key SQLite gives a new row: max(rowid) + 1
NewId(table) ==
    IF table = {} THEN 1
    ELSE (CHOOSE i \in Ids(table) : \A j \in Ids(table) : j <= i) + 1

RowById(table, id) == CHOOSE r \in table : r.id = id

\* sum(r.amount for r in rows)
RECURSIVE SumAmount(_)
SumAmount(rows) ==
    IF rows = {} THEN 0
    ELSE LET r == CHOOSE x \in rows : TRUE
         IN  r.amount + SumAmount(rows \ {r})

\* rows in the order of ORDER BY ts DESC (rows of equal ts in rowid order)
RECURSIVE order_by_ts_desc(_)
order_by_ts_desc(rows) ==
    IF rows = {} THEN <<>>
    ELSE LET first == CHOOSE r \in rows : \A o \in rows :
                          \/ TupleLT(o.ts, r.ts)
                          \/ o.ts = r.ts /\ r.id <= o.id
         IN  <<first>> \o order_by_ts_desc(rows \ {first})

\* the ids of a set of rows in rowid order
RECURSIVE order_by_id(_)
order_by_id(rows) ==
    IF rows = {} THEN <<>>
    ELSE LET first == CHOOSE r \in rows : \A o \in rows : r.id <= o.id
         IN  <<first>> \o order_by_id(rows \ {first})

Limit(rows, n) == SubSeq(rows, 1, IF Len(rows) < n THEN Len(rows) ELSE n)

ListLimit == 200

HTTPException(code, detail) ==
    [status |-> "http_error", code |-> code, detail |-> detail]

Init ==
    /\ transactions = {}
    /\ budgets = {}
    /\ goals = {}
    /\ recurring = {}
    /\ now = ClockInstants[1]
    /\ response = [status |-> "none"]
    /\ sess = [w \in Workers |-> [pc |-> "idle"]]

(***************************************************************************)
(* POST /api/command                                                       *)
(***************************************************************************)
\* the budget check that follows an add: the spending of the month in the
\* category against the category's budget; None when there is no warning
budget_check(rows, category) ==
    LET month_start == <<now[1], now[2], 1, 0>>
        spent == SumAmount({r \in rows : /\ r.category = category
                                         /\ r.is_expense
                                         /\ TupleLE(month_start, r.ts)})
        found == {b \in budgets : b.category = category}
    IN  IF found = {} THEN None
        ELSE LET budget == CHOOSE b \in found : TRUE
             IN  IF budget.monthly_amount > 0 /\ spent >= budget.monthly_amount
                 THEN Some([kind |-> "exceeded", spent |-> spent,
                            budget |-> budget.monthly_amount])
                 ELSE IF /\ budget.monthly_amount > 0
                         /\ 100 * spent >= 85 * budget.monthly_amount
                 THEN Some([kind |-> "near limit", spent |-> spent,
                            budget |-> budget.monthly_amount])
                 ELSE None

new_transaction(parsed) ==
    [id |-> NewId(transactions), amount |-> parsed.amount[1],
     category |-> parsed.category, description |-> parsed.description,
     ts |-> now, is_expense |-> (parsed.intent = "add"),
     recurring_id |-> None]

\* datetime.isoformat(): the text "YYYY-MM-DDTtime", kept as its fields and
\* separators
isoformat(dt) == <<dt[1], "-", dt[2], "-", dt[3], "T", dt[4]>>

\* a list entry that gives the amount in whole units
tx_json_whole_units(r) ==
    [id |-> r.id, amount |-> 100 * (r.amount \div 100), category |-> r.category,
     desc |-> r.description, ts |-> isoformat(r.ts),
     is_expense |-> r.is_expense]

tx_json(r) ==
    [id |-> r.id, amount |-> r.amount, category |-> r.category,
     desc |-> r.description, ts |-> isoformat(r.ts),
     is_expense |-> r.is_expense]

\* an add that keeps a transaction of amount zero when the amount is missing
command_add_keeps_draft(parsed) ==
    LET tx == new_transaction([parsed EXCEPT !.amount =
                                  IF parsed.amount = None THEN Some(0)
                                  ELSE parsed.amount])
    IN  /\ Cardinality(transactions) < MaxTx
        /\ tx.id <= MaxId
        /\ transactions' = transactions \cup {tx}
        /\ response' =
               IF parsed.amount = None
               THEN [status |-> "need_amount",
                     description |-> parsed.description,
                     category |-> parsed.category]
               ELSE [status |-> "ok", action |-> "added", id |-> tx.id,
                     amount |-> tx.amount, category |-> tx.category,
                     is_expense |-> tx.is_expense,
                     budget_warning |->
                         budget_check(transactions \cup {tx}, tx.category)]
        /\ UNCHANGED <<budgets, goals, recurring>>

command_add(parsed) ==
    IF parsed.amount = None
    THEN /\ response' = [status |-> "need_amount",
                         description |-> parsed.description,
                         category |-> parsed.category]
         /\ UNCHANGED tables
    ELSE LET tx == new_transaction(parsed)
         IN  /\ Cardinality(transactions) < MaxTx
             /\ tx.id <= MaxId
             /\ transactions' = transactions \cup {tx}
             /\ response' = [status |-> "ok", action |-> "added", id |-> tx.id,
                             amount |-> tx.amount, category |-> tx.category,
                             is_expense |-> tx.is_expense,
                             budget_warning |->
                                 budget_check(transactions \cup {tx}, tx.category)]
             /\ UNCHANGED <<budgets, goals, recurring>>

command_summary(rows) ==
    LET total_income == SumAmount({r \in rows : ~r.is_expense})
        total_expense == SumAmount({r \in rows : r.is_expense})
    IN  [status |-> "ok", income |-> total_income, expense |-> total_expense,
         balance |-> total_income - total_expense]

command_list(rows) ==
    LET top == Limit(order_by_ts_desc(rows), ListLimit)
    IN  [status |-> "ok",
         transactions |-> [i \in DOMAIN top |-> tx_json(top[i])]]

\* a lookup that answers with the oldest stored transaction, whatever the id
command_get_tx_oldest(txid) ==
    IF transactions = {}
    THEN HTTPException(404, "transaction not found")
    ELSE [status |-> "ok",
          transaction |-> tx_json(order_by_id(transactions)[1])]

command_get_tx(txid) ==
    IF txid \notin Ids(transactions)
    THEN HTTPException(404, "transaction not found")
    ELSE [status |-> "ok",
          transaction |-> tx_json(RowById(transactions, txid))]

\* a delete that answers ok for an id that is not stored
command_delete_silent(text) ==
    IF id_match(text) = <<>>
    THEN /\ response' = HTTPException(400, "no id found to delete")
         /\ UNCHANGED tables
    ELSE LET txid == IntOf(id_match(text))
         IN  /\ transactions' = {r \in transactions : r.id # txid}
             /\ response' = [status |-> "ok", deleted_id |-> txid]
             /\ UNCHANGED <<budgets, goals, recurring>>

command_delete(text) ==
    IF id_match(text) = <<>>
    THEN /\ response' = HTTPException(400, "no id found to delete")
         /\ UNCHANGED tables
    ELSE LET txid == IntOf(id_match(text))
         IN  IF txid \notin Ids(transactions)
             THEN /\ response' = HTTPException(404, "transaction not found")
                  /\ UNCHANGED tables
             ELSE /\ transactions' = transactions \ {RowById(transactions, txid)}
                  /\ response' = [status |-> "ok", deleted_id |-> txid]
                  /\ UNCHANGED <<budgets, goals, recurring>>

handle_command(text) ==
    /\ UNCHANGED <<now, sess>>
    /\ IF text = <<>>
       THEN /\ response' = HTTPException(400, "text required")
            /\ UNCHANGED tables
       ELSE LET parsed == parse_command(text)
            IN  CASE parsed = ValueError ->
                       /\ response' = HTTPException(500, "Internal Server Error")
                       /\ UNCHANGED tables
                  [] parsed.intent \in {"add", "add_income"} ->
                       command_add(parsed)
                  [] parsed.intent = "summary" ->
                       /\ response' = command_summary(transactions)
                       /\ UNCHANGED tables
                  [] parsed.intent = "list" ->
                       /\ response' = command_list(transactions)
                       /\ UNCHANGED tables
                  [] parsed.intent = "get_tx" ->
                       /\ response' = command_get_tx(parsed.txid)
                       /\ UNCHANGED tables
                  [] parsed.intent = "delete" ->
                       command_delete(text)
                  [] OTHER ->
                       /\ response' = [status |-> "error",
                                       message |-> "Could not understand intent",
                                       parsed |-> parsed]
                       /\ UNCHANGED tables

(***************************************************************************)
(* POST /api/edit                                                          *)
(***************************************************************************)
\* an edit that answers ok for an id that is not stored
edit_transaction_silent(id, description, amount, is_expense) ==
    /\ UNCHANGED <<budgets, goals, recurring, now, sess>>
    /\ transactions' =
           {IF tx.id = id
            THEN [tx EXCEPT !.description = description, !.amount = amount,
                            !.is_expense = is_expense]
            ELSE tx : tx \in transactions}
    /\ response' = [status |-> "ok", updated_id |-> id]

\* an edit that files the transaction under the default category again
edit_transaction_recategorized(id, description, amount, is_expense) ==
    /\ UNCHANGED <<budgets, goals, recurring, now, sess>>
    /\ IF id \notin Ids(transactions)
       THEN /\ response' = HTTPException(404, "transaction not found")
            /\ UNCHANGED transactions
       ELSE LET tx == RowById(transactions, id)
            IN  /\ transactions' = (transactions \ {tx}) \cup
                       {[tx EXCEPT !.description = description,
                                   !.amount = amount,
                                   !.is_expense = is_expense,
                                   !.category = W_general]}
                /\ response' = [status |-> "ok", updated_id |-> id]

edit_transaction(id, description, amount, is_expense) ==
    /\ UNCHANGED <<budgets, goals, recurring, now, sess>>
    /\ IF id \notin Ids(transactions)
       THEN /\ response' = HTTPException(404, "transaction not found")
            /\ UNCHANGED transactions
       ELSE LET tx == RowById(transactions, id)
            IN  /\ transactions' = (transactions \ {tx}) \cup
                       {[tx EXCEPT !.description = description,
                                   !.amount = amount,
                                   !.is_expense = is_expense]}
                /\ response' = [status |-> "ok", updated_id |-> id]

(***************************************************************************)
(* Budgets: POST /api/budget, DELETE /api/budget/{id}                      *)
(***************************************************************************)
\* the rows of the table after the update branch of create_budget
budget_updated(rows, existing, monthly_amount, currency) ==
    (rows \ {existing}) \cup
        {[existing EXCEPT !.monthly_amount = monthly_amount,
                          !.currency = currency]}

\* the rows of the table after the insert branch of create_budget
budget_inserted(rows, category, monthly_amount, currency) ==
    rows \cup {[id |-> NewId(rows), category |-> category,
                monthly_amount |-> monthly_amount, currency |-> currency]}

\* an upsert that never looks for the existing row and always inserts
create_budget_always_insert(category, monthly_amount, currency) ==
    /\ UNCHANGED <<transactions, goals, recurring, now, sess>>
    /\ NewId(budgets) <= MaxId
    /\ budgets' = budget_inserted(budgets, category, monthly_amount, currency)
    /\ response' = [status |-> "ok", action |-> "created",
                    budget_id |-> NewId(budgets)]

create_budget(category, monthly_amount, currency) ==
    /\ UNCHANGED <<transactions, goals, recurring, now, sess>>
    /\ LET found == {b \in budgets : b.category = category}
       IN  IF found # {}
           THEN LET existing == CHOOSE b \in found : TRUE
                IN  /\ budgets' = budget_updated(budgets, existing,
                                                 monthly_amount, currency)
                    /\ response' = [status |-> "ok", action |-> "updated",
                                    budget_id |-> existing.id]
           ELSE /\ NewId(budgets) <= MaxId
                /\ budgets' = budget_inserted(budgets, category,
                                              monthly_amount, currency)
                /\ response' = [status |-> "ok", action |-> "created",
                                budget_id |-> NewId(budgets)]

delete_budget(budget_id) ==
    /\ UNCHANGED <<transactions, goals, recurring, now, sess>>
    /\ IF budget_id \notin Ids(budgets)
       THEN /\ response' = HTTPException(404, "budget not found")
            /\ UNCHANGED budgets
       ELSE /\ budgets' = budgets \ {RowById(budgets, budget_id)}
            /\ response' = [status |-> "ok", deleted_id |-> budget_id]

(***************************************************************************)
(* Goals: POST /api/goal, DELETE /api/goal/{id}                            *)
(***************************************************************************)
create_goal(title, target_amount, start_date, end_date) ==
    LET ng == [id |-> NewId(goals), title |-> title,
               target_amount |-> target_amount,
               start_date |-> (IF start_date # None THEN start_date ELSE today),
               end_date |-> end_date]
    IN  /\ ng.id <= MaxId
        /\ goals' = goals \cup {ng}
        /\ response' = [status |-> "ok", action |-> "created", goal_id |-> ng.id]
        /\ UNCHANGED <<transactions, budgets, recurring, now, sess>>

delete_goal(goal_id) ==
    /\ UNCHANGED <<transactions, budgets, recurring, now, sess>>
    /\ IF goal_id \notin Ids(goals)
       THEN /\ response' = HTTPException(404, "goal not found")
            /\ UNCHANGED goals
       ELSE /\ goals' = goals \ {RowById(goals, goal_id)}
            /\ response' = [status |-> "ok", deleted_id |-> goal_id]

(***************************************************************************)
(* Recurring rules: POST /api/recurring, DELETE /api/recurring/{rid}       *)
(***************************************************************************)
create_recurring(description, amount, category, is_expense, interval, next_run) ==
    LET nr == IF next_run # None THEN next_run ELSE date_add_days(today, 1)
        rr == [id |-> NewId(recurring), description |-> description,
               amount |-> amount, category |-> category,
               is_expense |-> is_expense, interval |-> interval,
               next_run |-> nr]
    IN  /\ Cardinality(recurring) < MaxRules
        /\ rr.id <= MaxId
        /\ recurring' = recurring \cup {rr}
        /\ response' = [status |-> "ok", action |-> "created",
                        recurring_id |-> rr.id]
        /\ UNCHANGED <<transactions, budgets, goals, now, sess>>

\* a delete that takes the transactions of the rule with it
delete_recurring_cascade(rid) ==
    /\ UNCHANGED <<budgets, goals, now, sess>>
    /\ IF rid \notin Ids(recurring)
       THEN /\ response' = HTTPException(404, "recurring rule not found")
            /\ UNCHANGED <<transactions, recurring>>
       ELSE /\ recurring' = recurring \ {RowById(recurring, rid)}
            /\ transactions' =
                   {t \in transactions : t.recurring_id # Some(rid)}
            /\ response' = [status |-> "ok", deleted_id |-> rid]

delete_recurring(rid) ==
    /\ UNCHANGED <<transactions, budgets, goals, now, sess>>
    /\ IF rid \notin Ids(recurring)
       THEN /\ response' = HTTPException(404, "recurring rule not found")
            /\ UNCHANGED recurring
       ELSE /\ recurring' = recurring \ {RowById(recurring, rid)}
            /\ response' = [status |-> "ok", deleted_id |-> rid]

(***************************************************************************)
(* The scheduler pass: POST /api/recurring/run_due                         *)
(***************************************************************************)
\* a pass that leaves out the rules whose next_run is the very day of the pass
due_rules_before(rules, day) ==
    {r \in rules : r.next_run # None /\ TupleLT(r.next_run, day)}

\* the rows of RecurringTransaction.next_run <= today (a NULL never compares)
due_rules(rules, day) ==
    {r \in rules : r.next_run # None /\ TupleLE(r.next_run, day)}

\* a monthly rule rescheduled by 30 days instead of one calendar month
advance_next_run_30_days(r) ==
    IF r.interval = "monthly"
    THEN date_add_days(r.next_run, 30)
    ELSE date_add_days(r.next_run, 7)

\* a monthly rule rescheduled to the first day of the month it was due in
advance_next_run_first_of_month(r) ==
    IF r.interval = "monthly"
    THEN <<r.next_run[1], r.next_run[2], 1>>
    ELSE date_add_days(r.next_run, 7)

\* a monthly rule rescheduled to the last day of the month it was due in
advance_next_run_end_of_month(r) ==
    IF r.interval = "monthly"
    THEN <<r.next_run[1], r.next_run[2], monthrange(r.next_run[1], r.next_run[2])>>
    ELSE date_add_days(r.next_run, 7)

\* the next_run the pass gives a rule it processed
advance_next_run(r) ==
    IF r.interval = "monthly"
    THEN LET y == r.next_run[1] + (IF r.next_run[2] = 12 THEN 1 ELSE 0)
             m == IF r.next_run[2] = 12 THEN 1 ELSE r.next_run[2] + 1
             day == IF r.next_run[3] < monthrange(y, m)
                    THEN r.next_run[3] ELSE monthrange(y, m)
         IN  <<y, m, day>>
    ELSE date_add_days(r.next_run, 7)

\* a pass that dates the transaction at the time of the pass
recurring_tx_dated_now(r) ==
    [amount |-> r.amount, category |-> r.category,
     description |-> <<"[", "r", "e", "c", "u", "r", "r", "i", "n", "g", "]", " ">>
                     \o r.description,
     ts |-> now, is_expense |-> r.is_expense,
     recurring_id |-> Some(r.id)]

\* the transaction the pass creates for a rule, before it has its id
recurring_tx(r) ==
    [amount |-> r.amount, category |-> r.category,
     description |-> <<"[", "r", "e", "c", "u", "r", "r", "i", "n", "g", "]", " ">>
                     \o r.description,
     ts |-> combine_midnight(r.next_run), is_expense |-> r.is_expense,
     recurring_id |-> Some(r.id)]

WithId(row, id) == [k \in DOMAIN row \cup {"id"} |->
                       IF k = "id" THEN id ELSE row[k]]

\* INSERT of the pending rows, in the order they were added to the session
RECURSIVE insert_all(_, _)
insert_all(rows, pending) ==
    IF pending = <<>> THEN rows
    ELSE insert_all(rows \cup {WithId(Head(pending), NewId(rows))}, Tail(pending))

\* the pass over the rules read: what it adds and what it updates
pass_new_txs(rows) == [i \in DOMAIN rows |-> recurring_tx(rows[i])]

pass_updates(rows) == {[id |-> rows[i].id, next_run |-> advance_next_run(rows[i])]
                          : i \in DOMAIN rows}

pass_created(rows) ==
    [i \in DOMAIN rows |-> [recurring_id |-> rows[i].id,
                            created_amount |-> rows[i].amount,
                            category |-> rows[i].category]]

\* a commit that writes the new transactions and loses the updates of next_run
apply_updates_lost(rules, updates) == rules

\* UPDATE recurring SET next_run = ? WHERE id = ?, for every update
apply_updates(rules, updates) ==
    {IF \E u \in updates : u.id = r.id
     THEN [r EXCEPT !.next_run = (CHOOSE u \in updates : u.id = r.id).next_run]
     ELSE r : r \in rules}

run_due_recurrences ==
    LET rows == order_by_id(due_rules(recurring, today))
    IN  /\ Cardinality(transactions) + Len(rows) <= MaxTx
        /\ NewId(transactions) + Len(rows) - 1 <= MaxId
        /\ transactions' = insert_all(transactions, pass_new_txs(rows))
        /\ recurring' = apply_updates(recurring, pass_updates(rows))
        /\ response' = [status |-> "ok", created |-> pass_created(rows)]
        /\ UNCHANGED <<budgets, goals, now, sess>>

(***************************************************************************)
(* The clock moves to a later instant.                                     *)
(***************************************************************************)
Tick ==
    /\ \E i \in DOMAIN ClockInstants :
           TupleLT(now, ClockInstants[i]) /\ now' = ClockInstants[i]
    /\ UNCHANGED <<tables, response, sess>>

(***************************************************************************)
(* Spec: the command endpoint, one request at a time.                      *)
(***************************************************************************)
T_spent_food == <<"s","p","e","n","t"," ","2","0"," ","o","n"," ","f","o","o","d">>
T_pay_rent == <<"P","a","y"," ","f","o","r"," ","r","e","n","t">>
T_earned == <<"E","a","r","n","e","d"," ","1","5",".","5">>
T_salary == <<"s","a","l","a","r","y">>
T_summary == <<"s","u","m","m","a","r","y">>
T_list == <<"l","i","s","t">>
T_delete == <<"d","e","l","e","t","e">>
T_delete_1 == <<"d","e","l","e","t","e"," ","1">>
T_delete_2 == <<"r","e","m","o","v","e"," ","#","2">>
T_get_1 == <<"1">>
T_hello == <<"h","e","l","l","o">>

CommandTexts ==
    {T_spent_food, T_pay_rent, T_earned, T_salary, T_summary, T_list,
     T_delete, T_delete_1, T_delete_2, T_get_1, T_hello, <<>>}

Next ==
    \/ \E text \in CommandTexts : handle_command(text)
    \/ Tick

Spec == Init /\ [][Next]_vars

(***************************************************************************)
(* Properties of the command endpoint.                                     *)
(***************************************************************************)
\* the instant an ISO text names
InstantOf(iso) == <<iso[1], iso[3], iso[5], iso[7]>>

HasNumeral(text) == \E i \in DOMAIN text : text[i] \in DigitChars

IsAddIntent(text) == parse_command(text).intent \in {"add", "add_income"}

\* C1: a command that classifies as add_expense or add_income and holds no
\* numeral is answered need_amount, with the parsed description and category,
\* and leaves the stored transactions as they were.
C1_NeedAmountCreatesNothing ==
    [][\A text \in CommandTexts :
          (handle_command(text) /\ text # <<>> /\ IsAddIntent(text)
              /\ ~HasNumeral(text))
          => /\ response' = [status |-> "need_amount",
                             description |-> parse_command(text).description,
                             category |-> parse_command(text).category]
             /\ transactions' = transactions]_vars

\* a need_amount answer given while transactions are stored
C1_Witness ==
    /\ response.status = "need_amount"
    /\ response.category = <<"r","e","n","t">>
    /\ response.description = <<"p","a","y"," ","f","o","r"," ","r","e","n","t">>
    /\ transactions # {}

\* the delete commands of CommandTexts and the id each one names
DeleteTexts == {<<T_delete_1, 1>>, <<T_delete_2, 2>>}

NotFound(r) == r.status = "http_error" /\ r.code = 404

\* C4: deleting an id that is not stored answers NotFound, every time it is
\* tried, and changes nothing; deleting a stored id removes that transaction
\* and confirms the id; deleting the same id again, with no creation in
\* between, answers NotFound.
C4_DeleteOnce ==
    [][\A d \in DeleteTexts :
          handle_command(d[1])
          => /\ d[2] \notin Ids(transactions)
                => NotFound(response') /\ transactions' = transactions
             /\ d[2] \in Ids(transactions)
                => /\ response' = [status |-> "ok", deleted_id |-> d[2]]
                   /\ transactions' = {r \in transactions : r.id # d[2]}
                   /\ Cardinality(transactions') = Cardinality(transactions) - 1
             /\ response = [status |-> "ok", deleted_id |-> d[2]]
                => NotFound(response')]_vars

\* a delete has removed one transaction and left another
C4_Witness ==
    /\ response = [status |-> "ok", deleted_id |-> 1]
    /\ Ids(transactions) = {2}

(***************************************************************************)
(* SpecBudget: the budget endpoints, one request at a time.                *)
(***************************************************************************)
W_food == <<"f","o","o","d">>

BudgetCategories == {W_food, W_general}

BudgetAmounts == {10000, 25000}

Currencies == {"USD", "EUR"}

NextBudget ==
    \/ \E c \in BudgetCategories, a \in BudgetAmounts, cur \in Currencies :
           create_budget(c, a, cur)
    \/ \E id \in 1..MaxId : delete_budget(id)

SpecBudget == Init /\ [][NextBudget]_vars

RowsOf(category) == {b \in budgets : b.category = category}

\* C2: there is at most one Budget row per category after any sequence of
\* upserts and deletes; an upsert of a category that has no row creates one
\* and reports "created"; an upsert of a category that has a row leaves that
\* one row, with the same id and the latest monthly_amount, and reports
\* "updated"; so the second of two upserts of a category reports "updated"
\* with the id the first one reported as "created".
C2_UpsertOneRowPerCategory ==
    /\ [](\A b1, b2 \in budgets : b1.category = b2.category => b1 = b2)
    /\ [][\A c \in BudgetCategories, a \in BudgetAmounts, cur \in Currencies :
             create_budget(c, a, cur)
             => /\ Cardinality({b \in budgets' : b.category = c}) = 1
                /\ \A b \in budgets' : b.category = c =>
                       /\ b.monthly_amount = a
                       /\ response'.budget_id = b.id
                /\ RowsOf(c) = {}
                      => /\ response'.action = "created"
                         /\ response'.budget_id \notin Ids(budgets)
                /\ RowsOf(c) # {}
                      => /\ response'.action = "updated"
                         /\ \A b \in RowsOf(c) : response'.budget_id = b.id
                         /\ Cardinality(budgets') = Cardinality(budgets)
                /\ (/\ response.status = "ok"
                    /\ "action" \in DOMAIN response
                    /\ response.action = "created"
                    /\ \E b \in RowsOf(c) : b.id = response.budget_id)
                      => response' = [status |-> "ok", action |-> "updated",
                                      budget_id |-> response.budget_id]]_vars

\* a second upsert of a category, with another amount, has updated the row
C2_Witness ==
    /\ response = [status |-> "ok", action |-> "updated", budget_id |-> 1]
    /\ \E b \in budgets :
           b.id = 1 /\ b.category = W_food /\ b.monthly_amount = 25000
    /\ Cardinality(budgets) = 2

(***************************************************************************)
(* SpecBudgetRace: requests to POST /api/budget handled at the same time   *)
(* (a "def" endpoint runs in a worker thread, each call with a session of  *)
(* its own). A call reads the row of the category, decides, and commits;   *)
(* the commit is one SQLite write transaction, and budgets.category is     *)
(* UNIQUE.                                                                 *)
(***************************************************************************)
\* the call arrives: sess = SessionLocal()
budget_begin(w, category, monthly_amount, currency) ==
    /\ sess[w].pc = "idle"
    /\ sess' = [sess EXCEPT ![w] =
                   [pc |-> "query", category |-> category,
                    monthly_amount |-> monthly_amount, currency |-> currency]]
    /\ UNCHANGED <<tables, now, response>>

\* existing = sess.query(Budget).filter(Budget.category == b.category).first()
budget_query(w) ==
    /\ sess[w].pc = "query"
    /\ LET found == {b \in budgets : b.category = sess[w].category}
       IN  sess' = [sess EXCEPT ![w] =
                       [k \in DOMAIN sess[w] \cup {"existing"} |->
                           CASE k = "pc" -> "commit"
                             [] k = "existing" ->
                                  IF found = {} THEN None
                                  ELSE Some((CHOOSE b \in found : TRUE).id)
                             [] OTHER -> sess[w][k]]]
    /\ UNCHANGED <<tables, now, response>>

\* sess.commit() of the branch taken, and the answer of the call
budget_commit(w) ==
    /\ sess[w].pc = "commit"
    /\ UNCHANGED <<transactions, goals, recurring, now, response>>
    /\ LET s == sess[w]
           Done(result) == sess' = [sess EXCEPT ![w] =
                               [pc |-> "done", category |-> s.category,
                                result |-> result]]
       IN  IF s.existing # None
           THEN IF s.existing[1] \in Ids(budgets)
                THEN /\ budgets' = budget_updated(budgets,
                                       RowById(budgets, s.existing[1]),
                                       s.monthly_amount, s.currency)
                     /\ Done([status |-> "ok", action |-> "updated",
                              budget_id |-> s.existing[1]])
                ELSE \* UPDATE matched no row: StaleDataError
                     /\ UNCHANGED budgets
                     /\ Done([status |-> "http_error", code |-> 500])
           ELSE IF \E b \in budgets : b.category = s.category
                THEN \* UNIQUE constraint failed: IntegrityError
                     /\ UNCHANGED budgets
                     /\ Done([status |-> "http_error", code |-> 500])
                ELSE /\ NewId(budgets) <= MaxId
                     /\ budgets' = budget_inserted(budgets, s.category,
                                       s.monthly_amount, s.currency)
                     /\ Done([status |-> "ok", action |-> "created",
                              budget_id |-> NewId(budgets)])

NextBudgetRace ==
    \/ \E w \in Workers, c \in BudgetCategories, a \in BudgetAmounts,
          cur \in Currencies : budget_begin(w, c, a, cur)
    \/ \E w \in Workers : budget_query(w)
    \/ \E w \in Workers : budget_commit(w)

SpecBudgetRace == Init /\ [][NextBudgetRace]_vars

\* C3: when two upserts of one category that has no row yet have both
\* completed, whatever the interleaving of their steps, the category has one
\* row, and one call reported "created" and the other "updated".
C3_ConcurrentUpsert ==
    \A w1, w2 \in Workers :
        (/\ w1 # w2
         /\ sess[w1].pc = "done" /\ sess[w2].pc = "done"
         /\ sess[w1].category = sess[w2].category)
        => /\ Cardinality(RowsOf(sess[w1].category)) = 1
           /\ sess[w1].result.status = "ok"
           /\ sess[w2].result.status = "ok"
           /\ {sess[w1].result.action, sess[w2].result.action}
                  = {"created", "updated"}

\* what the code does keep: the category never has two rows
C3_NoDuplicateRows ==
    \A b1, b2 \in budgets : b1.category = b2.category => b1 = b2

(***************************************************************************)
(* SpecSched: recurring rules and the scheduler pass, one request at a     *)
(* time, while the clock moves on.                                         *)
(***************************************************************************)
W_rent == <<"r","e","n","t">>

Rule(interval, next_run) ==
    [description |-> W_rent, amount |-> 1000, category |-> W_general,
     is_expense |-> TRUE, interval |-> interval, next_run |-> next_run]

SchedRules ==
    {Rule("monthly", None), Rule("monthly", <<2023, 1, 31>>),
     Rule("monthly", <<2024, 1, 31>>), Rule("monthly", <<2023, 12, 28>>),
     Rule("weekly", <<2023, 12, 28>>), Rule("weekly", <<2024, 2, 26>>)}

NextSched ==
    \/ \E r \in SchedRules :
           create_recurring(r.description, r.amount, r.category, r.is_expense,
                            r.interval, r.next_run)
    \/ run_due_recurrences
    \/ Tick

SpecSched == Init /\ [][NextSched]_vars

\* the calendar, as the properties state it
LeapYear(y) == (y % 4 = 0 /\ y % 100 # 0) \/ y % 400 = 0

LastDay(y, m) ==
    CASE m \in {4, 6, 9, 11} -> 30
      [] m = 2 -> IF LeapYear(y) THEN 29 ELSE 28
      [] OTHER -> 31

DayAfter(d) ==
    IF d[3] < LastDay(d[1], d[2]) THEN <<d[1], d[2], d[3] + 1>>
    ELSE IF d[2] < 12 THEN <<d[1], d[2] + 1, 1>>
    ELSE <<d[1] + 1, 1, 1>>

RECURSIVE DaysAfter(_, _)
DaysAfter(d, n) == IF n = 0 THEN d ELSE DaysAfter(DayAfter(d), n - 1)

\* the number of days from date a to the later date b, at most `most`
RECURSIVE DaysBetween(_, _, _)
DaysBetween(a, b, most) ==
    IF a = b \/ most = 0 THEN 0 ELSE 1 + DaysBetween(DayAfter(a), b, most - 1)

OnOrBefore(a, b) ==
    \/ a[1] < b[1]
    \/ a[1] = b[1] /\ a[2] < b[2]
    \/ a[1] = b[1] /\ a[2] = b[2] /\ a[3] <= b[3]

IsDue(r) == OnOrBefore(r.next_run, today)

NewTxs == transactions' \ transactions

RuleAfter(r) == CHOOSE n \in recurring' : n.id = r.id

\* C5: one pass creates exactly one Transaction for every rule whose next_run
\* is on or before the current date, however long the rule is overdue, and
\* none for a rule whose next_run is later; no stored transaction is lost.
C5_OneTransactionPerDueRule ==
    [][run_due_recurrences
       => /\ transactions \subseteq transactions'
          /\ \A t \in NewTxs : \E r \in recurring : t.recurring_id = Some(r.id)
          /\ \A r \in recurring :
                Cardinality({t \in NewTxs : t.recurring_id = Some(r.id)})
                    = IF IsDue(r) THEN 1 ELSE 0]_vars

\* a pass has created one transaction for a rule that is still overdue after
\* it, and none for a rule that was not due
C5_Witness ==
    /\ "created" \in DOMAIN response
    /\ Len(response.created) = 1
    /\ Cardinality(recurring) = 2
    /\ \E r \in recurring :
           /\ r.id = response.created[1].recurring_id
           /\ TupleLT(r.next_run, today)
           /\ \E t \in transactions : t.recurring_id = Some(r.id)
    /\ \E r \in recurring :
           /\ TupleLT(today, r.next_run)
           /\ ~\E t \in transactions : t.recurring_id = Some(r.id)

\* one calendar month after d: the same day of the following month, or that
\* month's last day when it has no such day
MonthAfter(d) ==
    LET y == IF d[2] = 12 THEN d[1] + 1 ELSE d[1]
        m == IF d[2] = 12 THEN 1 ELSE d[2] + 1
    IN  IF d[3] <= LastDay(y, m) THEN <<y, m, d[3]>> ELSE <<y, m, LastDay(y, m)>>

\* C6: a pass advances the next_run of every rule it processes by the rule's
\* interval: a monthly rule to the same day of the following month (December
\* to January of the next year), clamped to the last day of that month (31
\* January to 28 February, 29 February in a leap year); a weekly rule by
\* seven days. A rule that is not due keeps its next_run.
C6_AdvanceByInterval ==
    [][run_due_recurrences
       => \A r \in recurring :
             /\ \E n \in recurring' : n.id = r.id
             /\ ~IsDue(r) => RuleAfter(r) = r
             /\ (IsDue(r) /\ r.interval = "weekly")
                   => RuleAfter(r).next_run = DaysAfter(r.next_run, 7)
             /\ (IsDue(r) /\ r.interval = "monthly")
                   => /\ RuleAfter(r).next_run = MonthAfter(r.next_run)
                      /\ r.next_run = <<2023, 1, 31>>
                            => RuleAfter(r).next_run = <<2023, 2, 28>>
                      /\ r.next_run = <<2024, 1, 31>>
                            => RuleAfter(r).next_run = <<2024, 2, 29>>
                      /\ r.next_run = <<2023, 12, 28>>
                            => RuleAfter(r).next_run = <<2024, 1, 28>>]_vars

\* a pass has moved a monthly rule from 31 January to 29 February 2024
C6_Witness ==
    \E r \in recurring :
        /\ r.interval = "monthly"
        /\ r.next_run = <<2024, 2, 29>>
        /\ \E t \in transactions :
               t.recurring_id = Some(r.id) /\ t.ts = <<2024, 1, 31, 0>>

NeverNull == \A r \in recurring : r.next_run # None

run_due_query(w) ==
    /\ sess[w].pc = "idle"
    /\ sess' = [sess EXCEPT ![w] =
                   [pc |-> "loop",
                    rows |-> order_by_id(due_rules(recurring, today)),
                    i |-> 1]]
    /\ UNCHANGED <<tables, now, response>>

\* one turn of "for r in rows": sess.add(tx), r.next_run = ...
run_due_loop(w) ==
    /\ sess[w].pc = "loop"
    /\ sess[w].i <= Len(sess[w].rows)
    /\ sess' = [sess EXCEPT ![w].i = @ + 1]
    /\ UNCHANGED <<tables, now, response>>

\* the rows the loop has been through
processed(s) == SubSeq(s.rows, 1, s.i - 1)

\* sess.commit(): the INSERTs and the UPDATEs in one transaction of the store
run_due_commit(w) ==
    /\ sess[w].pc = "loop"
    /\ sess[w].i > Len(sess[w].rows)
    /\ sess' = [sess EXCEPT ![w] = [pc |-> "idle"]]
    /\ UNCHANGED <<budgets, goals, now>>
    /\ LET rows == processed(sess[w])
       IN  IF \E i \in DOMAIN rows : rows[i].id \notin Ids(recurring)
           THEN \* an UPDATE matched no row: StaleDataError, all rolled back
                /\ response' = [status |-> "http_error", code |-> 500]
                /\ UNCHANGED <<transactions, recurring>>
           ELSE /\ Cardinality(transactions) + Len(rows) <= MaxTx
                /\ NewId(transactions) + Len(rows) - 1 <= MaxId
                /\ transactions' = insert_all(transactions, pass_new_txs(rows))
                /\ recurring' = apply_updates(recurring, pass_updates(rows))
                /\ response' = [status |-> "ok", created |-> pass_created(rows)]

\* the process dies: every open session is lost, the tables stay
crash ==
    /\ \E w \in Workers : sess[w].pc # "idle"
    /\ sess' = [w \in Workers |-> [pc |-> "idle"]]
    /\ UNCHANGED <<tables, now, response>>

(***************************************************************************)
(* SpecSchedCrash: passes one after the other, with crashes.               *)
(***************************************************************************)
NextSchedCrash ==
    \/ \E r \in SchedRules :
           create_recurring(r.description, r.amount, r.category, r.is_expense,
                            r.interval, r.next_run)
    \/ run_due_query(1)
    \/ run_due_loop(1)
    \/ run_due_commit(1)
    \/ crash
    \/ Tick

SpecSchedCrash == Init /\ [][NextSchedCrash]_vars

\* C8: the tables, which are what a crash leaves, never hold one half of a
\* rule's step: every step that stores a transaction of a rule advances that
\* rule's next_run in the same step, and every step that advances a rule's
\* next_run stores a transaction of the rule, dated at the old next_run; so
\* every stored transaction of a rule is dated before the rule's next_run.
C8_CrashAtomic ==
    /\ [](\A r \in recurring : \A t \in transactions :
             t.recurring_id = Some(r.id)
             => ~OnOrBefore(r.next_run, date_of(t.ts)))
    /\ [][\A r \in recurring :
             (\E n \in recurring' : n.id = r.id /\ n.next_run # r.next_run)
             <=> (\E t \in NewTxs : /\ t.recurring_id = Some(r.id)
                                    /\ t.ts = combine_midnight(r.next_run))]_vars

\* a pass has been through two due rules and has not committed: a crash now
\* leaves the tables with neither the transactions nor the new next_run
C8_Witness ==
    /\ sess[1].pc = "loop"
    /\ Len(sess[1].rows) = 2
    /\ sess[1].i = 3
    /\ \A i \in 1..2 :
           /\ sess[1].rows[i] \in recurring
           /\ ~\E t \in transactions :
                  t.recurring_id = Some(sess[1].rows[i].id)

(***************************************************************************)
(* SpecSchedRace: two passes at the same time.                             *)
(***************************************************************************)
NextSchedRace ==
    \/ \E r \in SchedRules :
           create_recurring(r.description, r.amount, r.category, r.is_expense,
                            r.interval, r.next_run)
    \/ \E w \in Workers : run_due_query(w)
    \/ \E w \in Workers : run_due_loop(w)
    \/ \E w \in Workers : run_due_commit(w)
    \/ Tick

SpecSchedRace == Init /\ [][NextSchedRace]_vars

\* C9: whatever the interleaving of two passes, no rule has two transactions
\* for the same occurrence (the same next_run), and every transaction a pass
\* stores for a rule comes with an advance of that rule's next_run.
C9_NoDoubleMaterialization ==
    /\ [](\A t1, t2 \in transactions :
             (/\ t1.recurring_id # None
              /\ t1.recurring_id = t2.recurring_id
              /\ t1.ts = t2.ts) => t1 = t2)
    /\ [][\A r \in recurring :
             (\E t \in NewTxs : t.recurring_id = Some(r.id))
             => \E n \in recurring' : n.id = r.id /\ n.next_run # r.next_run]_vars

(***************************************************************************)
(* SpecLedger: adds, deletes, edits, scheduler passes and the summary, one *)
(* request at a time. Neither POST /api/edit nor POST /api/recurring       *)
(* checks the sign of the amount it is given.                              *)
(***************************************************************************)
LedgerTexts == {T_spent_food, T_earned, T_summary, T_delete_1}

EditAmounts == {-500, 700}

LedgerRules == {Rule("monthly", <<2023, 12, 28>>)}

NextLedger ==
    \/ \E text \in LedgerTexts : handle_command(text)
    \/ \E id \in 1..MaxId, amount \in EditAmounts, is_expense \in BOOLEAN :
           edit_transaction(id, W_rent, amount, is_expense)
    \/ \E r \in LedgerRules :
           create_recurring(r.description, r.amount, r.category, r.is_expense,
                            r.interval, r.next_run)
    \/ run_due_recurrences

SpecLedger == Init /\ [][NextLedger]_vars

\* the sum of the amounts of the rows with ids 1 .. k
RECURSIVE TotalUpTo(_, _)
TotalUpTo(rows, k) ==
    IF k = 0 THEN 0
    ELSE TotalUpTo(rows, k - 1)
         + (IF \E r \in rows : r.id = k
            THEN (CHOOSE r \in rows : r.id = k).amount ELSE 0)

Total(rows) == TotalUpTo(rows, MaxId + 1)

IsSummary(text) == text # <<>> /\ parse_command(text).intent = "summary"

\* the totals of the summary: income is the sum over the stored non-expense
\* rows, expense the sum over the stored expense rows, balance their
\* difference, with no date filter; all three are 0 with nothing stored
SummaryTotals ==
    [][\A text \in LedgerTexts :
          (handle_command(text) /\ IsSummary(text))
          => /\ response'.income = Total({r \in transactions : ~r.is_expense})
             /\ response'.expense = Total({r \in transactions : r.is_expense})
             /\ response'.balance = response'.income - response'.expense
             /\ transactions = {}
                   => /\ response'.income = 0
                      /\ response'.expense = 0
                      /\ response'.balance = 0]_vars

\* C10: after any sequence of adds, deletes, edits and scheduler passes the
\* summary reports income, expense and balance as the sums over all stored
\* transactions (0, 0, 0 with none stored), and the summary that follows a
\* successful add_expense of amount a reports an expense of at least a.
C10_Summary ==
    /\ SummaryTotals
    /\ [][\A text \in LedgerTexts :
             (/\ handle_command(text) /\ IsSummary(text)
              /\ "action" \in DOMAIN response
              /\ response.action = "added"
              /\ response.is_expense)
             => response'.expense >= response.amount]_vars

(***************************************************************************)
(* SpecClassify: the command endpoint over texts that meet several rules   *)
(* of the classifier, or none.                                             *)
(***************************************************************************)
T_paid_salary == <<"I"," ","p","a","i","d"," ","m","y"," ","s","a","l","a","r","y">>
T_spent_salary == <<"s","p","e","n","t"," ","5"," ","s","a","l","a","r","y">>
T_income == <<"i","n","c","o","m","e"," ","5","0","0">>
T_got_paid == <<"g","o","t"," ","p","a","i","d"," ","3","0","0">>
T_show == <<"s","h","o","w">>
T_show_delete == <<"s","h","o","w"," ","d","e","l","e","t","e"," ","1">>
T_list_delete == <<"l","i","s","t"," ","d","e","l","e","t","e"," ","1">>
T_summary_list == <<"s","u","m","m","a","r","y"," ","l","i","s","t">>
T_99 == <<"9","9">>
T_pad_2 == <<" ","2"," ">>
T_000001 == <<"0","0","0","0","0","1">>
T_1234567 == <<"1","2","3","4","5","6","7">>
T_super == <<SuperTwo>>
T_delete_tx == <<"d","e","l","e","t","e"," ","t","x","1"," ","2">>
T_delete_long == <<"d","e","l","e","t","e"," ","1","2","3","4","5","6","7">>

ClassifierTexts ==
    {T_paid_salary, T_spent_salary, T_income, T_got_paid, T_show,
     T_show_delete, T_list_delete, T_summary_list, T_99, T_pad_2, T_000001,
     T_1234567, T_super, T_delete_tx, T_delete_long, T_spent_food, T_earned,
     T_summary, T_list, T_delete, T_delete_1, T_hello, <<>>}

NextClassify == \E text \in ClassifierTexts : handle_command(text)

SpecClassify == Init /\ [][NextClassify]_vars

\* the intent the classifier gives a text, or "ValueError" when it raises
Classified(text) ==
    IF parse_command(text) = ValueError THEN "ValueError"
    ELSE parse_command(text).intent

\* the keywords of the rules, as the classifier is specified
W_paid == <<"p","a","i","d">>
W_got_paid == <<"g","o","t"," ","p","a","i","d">>
W_show == <<"s","h","o","w">>

ExpenseKeywords == {W_spent, W_bought, W_pay, W_paid, W_purchase}

IncomeKeywords == {W_earned, W_salary, W_received, W_income, W_got_paid}

SummaryKeywords == {W_summary, W_balance}

ListKeywords == {W_list, W_transactions, W_show}

DeleteKeywords == {W_delete, W_remove}

HasAny(text, words) == \E w \in words : Contains(Lower(text), w)

\* the whole text, without the spaces around it, is one to six decimal digits
IsShortNumeral(text) ==
    LET inner == {i \in DOMAIN text : text[i] # " "}
    IN  /\ inner # {}
        /\ Cardinality(inner) <= 6
        /\ \A i \in inner : text[i] \in DigitChars
        /\ \A i, j \in inner : \A k \in i..j : k \in inner

\* the intent of the earliest rule that matches, under the names the program
\* gives the intents ("add" is add_expense, "get_tx" is get_by_id)
FirstRule(text) ==
    IF HasAny(text, ExpenseKeywords) THEN "add"
    ELSE IF HasAny(text, IncomeKeywords) THEN "add_income"
    ELSE IF HasAny(text, SummaryKeywords) THEN "summary"
    ELSE IF HasAny(text, ListKeywords) THEN "list"
    ELSE IF HasAny(text, DeleteKeywords) THEN "delete"
    ELSE IF IsShortNumeral(text) THEN "get_tx"
    ELSE "unknown"

\* C11: the classifier applies the rules expense, income, summary, list,
\* delete, bare numeral, unknown in this order to the lowercased text and
\* the first rule that matches decides: a text with keywords of several
\* rules gets the intent of the earliest of them.
C11_FirstMatchingRuleWins ==
    [][\A text \in ClassifierTexts :
          handle_command(text) => Classified(text) = FirstRule(text)]_vars

\* C12: a text with no expense keyword and one of "earned", "salary",
\* "received", "income", "got paid" is classified as add_income; so is a text
\* whose only trigger word is "income".
C12_IncomeKeywords ==
    [][\A text \in ClassifierTexts :
          (/\ handle_command(text)
           /\ ~HasAny(text, ExpenseKeywords)
           /\ HasAny(text, IncomeKeywords))
          => Classified(text) = "add_income"]_vars

\* C13: a text with no expense, income or summary keyword and one of "list",
\* "transactions", "show" is classified as list; so is a text whose only
\* trigger word is "show".
C13_ListKeywords ==
    [][\A text \in ClassifierTexts :
          (/\ handle_command(text)
           /\ ~HasAny(text, ExpenseKeywords)
           /\ ~HasAny(text, IncomeKeywords)
           /\ ~HasAny(text, SummaryKeywords)
           /\ HasAny(text, ListKeywords))
          => Classified(text) = "list"]_vars

\* the number a sequence of decimal digits and spaces denotes
RECURSIVE NumeralValue(_, _)
NumeralValue(text, acc) ==
    IF text = <<>> THEN acc
    ELSE IF Head(text) \in DigitChars
    THEN NumeralValue(Tail(text),
                      10 * acc + (CHOOSE d \in 0..9 : Digits[d + 1] = Head(text)))
    ELSE NumeralValue(Tail(text), acc)

\* C14: a command whose whole trimmed text is a numeral of at most six digits
\* is classified as get_by_id with that number as the id; it answers with the
\* stored transaction of that id, or NotFound when there is none, and leaves
\* the ledger as it was.
C14_BareNumeralLooksUp ==
    [][\A text \in ClassifierTexts :
          (handle_command(text) /\ IsShortNumeral(text))
          => LET id == NumeralValue(text, 0)
             IN  /\ parse_command(text) = [intent |-> "get_tx", txid |-> id]
                 /\ tables' = tables
                 /\ id \notin Ids(transactions) => NotFound(response')
                 /\ id \in Ids(transactions)
                       => \E t \in transactions :
                             /\ t.id = id
                             /\ response' =
                                  [status |-> "ok",
                                   transaction |->
                                      [id |-> id, amount |-> t.amount,
                                       category |-> t.category,
                                       desc |-> t.description,
                                       ts |-> <<t.ts[1], "-", t.ts[2], "-",
                                                t.ts[3], "T", t.ts[4]>>,
                                       is_expense |-> t.is_expense]]]_vars

\* the numeral " 2 " has been looked up and the second of two stored
\* transactions returned
C14_Witness ==
    /\ response.status = "ok"
    /\ "transaction" \in DOMAIN response
    /\ response.transaction.id = 2
    /\ Ids(transactions) = {1, 2}

\* the intents of the classifier, under the names the program gives them
Intents ==
    {"add", "add_income", "summary", "list", "delete", "get_tx", "unknown"}

\* C15: the classifier is total: for every text, the empty text and texts
\* made of digit characters included, it gives one of the seven intents and
\* raises no error (being a function of the text, it gives the same text the
\* same intent every time).
C15_ClassifierTotal ==
    [][\A text \in ClassifierTexts :
          handle_command(text)
          => /\ parse_command(text) # ValueError
             /\ Classified(text) \in Intents
             /\ ~(response'.status = "http_error" /\ response'.code = 500)]_vars

(***************************************************************************)
(* SpecLookup: delete, edit and lookup by id, of ids that are stored and   *)
(* of ids that are not.                                                    *)
(***************************************************************************)
\* the delete and lookup commands of this specification, each with the id
\* it names
IdTexts ==
    {<<T_delete_1, 1>>, <<T_delete_2, 2>>, <<T_get_1, 1>>, <<T_pad_2, 2>>,
     <<T_99, 99>>}

LookupTexts == {T_spent_food, T_earned} \cup {p[1] : p \in IdTexts}

EditedAmount == 700

NextLookup ==
    \/ \E text \in LookupTexts : handle_command(text)
    \/ \E id \in 1..MaxId, is_expense \in BOOLEAN :
           edit_transaction(id, W_rent, EditedAmount, is_expense)

SpecLookup == Init /\ [][NextLookup]_vars

\* C16: delete, edit and get-by-id of an id that is not stored answer NotFound,
\* and no stored record is created, changed or removed.
C16_MissingIdNotFound ==
    [][/\ \A p \in IdTexts :
             (handle_command(p[1]) /\ p[2] \notin Ids(transactions))
             => NotFound(response') /\ tables' = tables
       /\ \A id \in 1..MaxId, is_expense \in BOOLEAN :
             (/\ edit_transaction(id, W_rent, EditedAmount, is_expense)
              /\ id \notin Ids(transactions))
             => NotFound(response') /\ tables' = tables]_vars

\* transaction 1 has been deleted, transaction 2 is stored, and a request
\* has been answered NotFound
C16_Witness ==
    /\ NotFound(response)
    /\ Ids(transactions) = {2}

\* [i, j] is a bare number of the text: a whole run of decimal digits with
\* no letter, digit or underscore next to it
IsBareNumber(text, i, j) ==
    LET Joins(c) == c \in LetterChars \cup DigitChars \cup {"_", SuperTwo}
    IN  /\ i <= j
        /\ \A k \in i..j : text[k] \in DigitChars
        /\ i = 1 \/ ~Joins(text[i - 1])
        /\ j = Len(text) \/ ~Joins(text[j + 1])

\* the bare numbers of at most six digits, as <<first, last>> positions
ShortBareNumbers(text) ==
    {p \in (DOMAIN text) \X (DOMAIN text) :
        IsBareNumber(text, p[1], p[2]) /\ p[2] - p[1] + 1 <= 6}

FirstBareNumber(text) ==
    CHOOSE p \in ShortBareNumbers(text) :
        \A q \in ShortBareNumbers(text) : p[1] <= q[1]

\* C17: the id a delete command names is the first bare number of at most six
\* digits of the raw text, wherever it stands and whatever the amount pattern
\* would find: a stored id is deleted and confirmed, an id that is not stored
\* is answered NotFound; a text with no such number is answered InvalidInput
\* (400) and deletes nothing.
C17_DeleteTargetId ==
    [][\A text \in ClassifierTexts :
          (handle_command(text) /\ Classified(text) = "delete")
          => IF ShortBareNumbers(text) = {}
             THEN /\ response'.status = "http_error"
                  /\ response'.code = 400
                  /\ tables' = tables
             ELSE LET p  == FirstBareNumber(text)
                      id == NumeralValue(SubSeq(text, p[1], p[2]), 0)
                  IN  IF id \in Ids(transactions)
                      THEN /\ response' = [status |-> "ok", deleted_id |-> id]
                           /\ transactions' =
                                  {t \in transactions : t.id # id}
                           /\ UNCHANGED <<budgets, goals, recurring>>
                      ELSE NotFound(response') /\ tables' = tables]_vars

\* "delete tx1 2" has removed transaction 2 and left transaction 1
C17_Witness ==
    /\ response = [status |-> "ok", deleted_id |-> 2]
    /\ Ids(transactions) = {1}

(***************************************************************************)
(* SpecWarn: adds in a category that has a budget, while budgets are set   *)
(* and the month changes. POST /api/budget takes any number as the         *)
(* monthly_amount.                                                         *)
(***************************************************************************)
T_spent_17 == <<"s","p","e","n","t"," ","1","7"," ","o","n"," ","f","o","o","d">>
T_earned_food == <<"e","a","r","n","e","d"," ","5"," ","f","o","r"," ","f","o","o","d">>

WarnTexts == {T_spent_food, T_spent_17, T_earned_food, T_delete_1}

WarnBudgets == {0, 2000, 4000}

NextWarn ==
    \/ \E text \in WarnTexts : handle_command(text)
    \/ \E a \in WarnBudgets : create_budget(W_food, a, "USD")
    \/ Tick

SpecWarn == Init /\ [][NextWarn]_vars

\* the expenses of a category in the current month, after the step
MonthToDate(category) ==
    Total({t \in transactions' : /\ t.category = category
                                 /\ t.is_expense
                                 /\ t.ts[1] = now[1]
                                 /\ t.ts[2] = now[2]})

\* the warning an add has to carry, for the budgets in `limits`
WarningAsSpecified(limits) ==
    \A text \in WarnTexts :
          (handle_command(text) /\ response'.status = "ok"
                                /\ "action" \in DOMAIN response'
                                /\ response'.action = "added")
          => LET tx  == CHOOSE t \in transactions' : t.id = response'.id
                 sum == MonthToDate(tx.category)
                 w   == response'.budget_warning
             IN  /\ tx \notin transactions
                 /\ (\A b \in budgets : b.category # tx.category) => w = None
                 /\ \A b \in budgets :
                       (b.category = tx.category /\ b.monthly_amount \in limits)
                       => /\ w # None <=> 100 * sum >= 85 * b.monthly_amount
                          /\ w # None =>
                               w[1].kind = IF sum >= b.monthly_amount
                                           THEN "exceeded" ELSE "near limit"

\* C18: the outcome of an add carries a budget warning exactly when the
\* category of the new transaction has a Budget and the expenses of that
\* category in the current month, the new transaction included, are at least
\* 85% of its monthly_amount: "exceeded" from 100% on, "near limit" from 85%
\* to below 100%; with no Budget of the category there is no warning.
C18_BudgetWarning == [][WarningAsSpecified(WarnBudgets)]_vars

\* what the program does keep: the same, for budgets above zero
BudgetWarningAboveZero == [][WarningAsSpecified(WarnBudgets \ {0})]_vars

(***************************************************************************)
(* SpecAmounts: the three ways an amount reaches a stored transaction: an  *)
(* add command, an edit, and a scheduler pass over a rule. None of them    *)
(* checks the amount.                                                      *)
(***************************************************************************)
T_spent_zero == <<"s","p","e","n","t"," ","0"," ","o","n"," ","f","o","o","d">>

AmountTexts == {T_spent_zero, T_spent_food, T_delete_1}

\* a rule that is due, with the amount 0
ZeroRule ==
    [description |-> W_rent, amount |-> 0, category |-> W_general,
     is_expense |-> TRUE, interval |-> "weekly", next_run |-> <<2023, 12, 28>>]

AmountRules == LedgerRules \cup {ZeroRule}

NextAmounts ==
    \/ \E text \in AmountTexts : handle_command(text)
    \/ \E id \in 1..MaxId, amount \in EditAmounts :
           edit_transaction(id, W_rent, amount, TRUE)
    \/ \E r \in AmountRules :
           create_recurring(r.description, r.amount, r.category, r.is_expense,
                            r.interval, r.next_run)
    \/ run_due_recurrences

SpecAmounts == Init /\ [][NextAmounts]_vars

\* C19: every stored transaction has an amount above zero, in every state
\* that add commands (a text whose first numeral is 0 among them), edits and
\* scheduler passes lead to.
C19_AmountsPositive == \A t \in transactions : t.amount > 0

(***************************************************************************)
(* SpecList: the list command over a ledger of many transactions, each     *)
(* added by "spent 20 on food" on a day of its own.                        *)
(***************************************************************************)
\* the transaction that the i-th add stored, on the i-th day of 2023
ListedRow(i) ==
    [id |-> i, amount |-> 2000, category |-> W_food,
     description |-> T_spent_food,
     ts |-> <<2023, 1 + ((i - 1) \div 28), 1 + ((i - 1) % 28), 1>>,
     is_expense |-> TRUE, recurring_id |-> None]

InitList ==
    /\ \E k \in 0..MaxListed : transactions = {ListedRow(i) : i \in 1..k}
    /\ budgets = {}
    /\ goals = {}
    /\ recurring = {}
    /\ now = ClockInstants[1]
    /\ response = [status |-> "none"]
    /\ sess = [w \in Workers |-> [pc |-> "idle"]]

ListTexts == {T_list, T_delete_1, T_delete_2, T_summary}

NextList == \E text \in ListTexts : handle_command(text)

SpecList == InitList /\ [][NextList]_vars

\* the size of the list window, as specified
ListWindow == 50

\* x is not later than y
NotLater(x, y) ==
    \E k \in 1..4 : /\ \A j \in 1..(k - 1) : x[j] = y[j]
                    /\ IF k = 4 THEN x[k] <= y[k] ELSE x[k] < y[k]

\* the list answers with stored transactions, each once, latest first, and
\* with every stored transaction that is later than one it lists
ListLatestFirst ==
    [][handle_command(T_list)
       => LET out == response'.transactions
          IN  /\ \A i \in DOMAIN out : \E t \in transactions : t.id = out[i].id
              /\ \A i, j \in DOMAIN out :
                    i < j => /\ out[i].id # out[j].id
                             /\ NotLater(InstantOf(out[j].ts),
                                         InstantOf(out[i].ts))
              /\ \A t \in transactions :
                    \/ \E i \in DOMAIN out : out[i].id = t.id
                    \/ \A i \in DOMAIN out :
                          NotLater(t.ts, InstantOf(out[i].ts))]_vars

\* C20: the list command answers with at most 50 transactions: all of them
\* when no more are stored, else the 50 with the latest timestamps; latest
\* first.
C20_ListAtMost50 ==
    /\ ListLatestFirst
    /\ [][handle_command(T_list)
          => Len(response'.transactions)
                = IF Cardinality(transactions) < ListWindow
                  THEN Cardinality(transactions) ELSE ListWindow]_vars

\* C21: a transaction that an add command created is in the answer of a
\* following list command, as long as fewer than 50 stored transactions are
\* later than it: one entry has its id, with the amount, category,
\* is_expense and timestamp it is stored with.
C21_AddThenList ==
    /\ [][\A text \in CommandTexts :
             (handle_command(text) /\ transactions' # transactions
                                   /\ transactions \subseteq transactions')
             => \E t \in transactions' \ transactions :
                   /\ transactions' = transactions \cup {t}
                   /\ t.id = response'.id
                   /\ t.amount = response'.amount
                   /\ t.category = response'.category
                   /\ t.is_expense = response'.is_expense
                   /\ t.ts = now]_vars
    /\ [][handle_command(T_list)
          => \A t \in transactions :
                Cardinality({o \in transactions : ~NotLater(o.ts, t.ts)})
                    < ListWindow
                => \E i \in DOMAIN response'.transactions :
                      LET e == response'.transactions[i]
                      IN  /\ e.id = t.id
                          /\ e.amount = t.amount
                          /\ e.category = t.category
                          /\ e.is_expense = t.is_expense
                          /\ InstantOf(e.ts) = t.ts]_vars

\* the list has answered with two transactions added at different times, the
\* income of 15.50 among them
C21_Witness ==
    /\ "transactions" \in DOMAIN response
    /\ Len(response.transactions) = 2
    /\ \E i \in 1..2 : /\ response.transactions[i].amount = 1550
                       /\ ~response.transactions[i].is_expense
    /\ InstantOf(response.transactions[1].ts)
          # InstantOf(response.transactions[2].ts)
    /\ Cardinality(transactions) = 2

(***************************************************************************)
(* SpecRules: recurring rules are created, processed and deleted, with a   *)
(* budget and a goal stored.                                               *)
(***************************************************************************)
W_trip == <<"t","r","i","p">>

FrameRules == {Rule("monthly", <<2023, 12, 28>>), Rule("weekly", <<2023, 12, 30>>)}

\* the state after POST /api/budget and POST /api/goal, one call each
InitRules ==
    /\ transactions = {}
    /\ budgets = budget_inserted({}, W_food, 25000, "USD")
    /\ goals = {[id |-> 1, title |-> W_trip, target_amount |-> 90000,
                 start_date |-> date_of(ClockInstants[1]), end_date |-> None]}
    /\ recurring = {}
    /\ now = ClockInstants[1]
    /\ response = [status |-> "ok", action |-> "created", goal_id |-> 1]
    /\ sess = [w \in Workers |-> [pc |-> "idle"]]

NextRules ==
    \/ \E r \in FrameRules :
           create_recurring(r.description, r.amount, r.category, r.is_expense,
                            r.interval, r.next_run)
    \/ run_due_recurrences
    \/ \E rid \in 1..MaxId : delete_recurring(rid)

SpecRules == InitRules /\ [][NextRules]_vars

\* C22: deleting a recurring rule removes that rule and nothing else: the
\* transactions it produced stay stored as they are, back-reference
\* included, and the other rules, the budgets and the goals are unchanged.
C22_DeleteRuleOnly ==
    [][\A rid \in 1..MaxId :
          (delete_recurring(rid) /\ rid \in Ids(recurring))
          => /\ recurring' = {r \in recurring : r.id # rid}
             /\ Cardinality(recurring') = Cardinality(recurring) - 1
             /\ transactions' = transactions
             /\ budgets' = budgets
             /\ goals' = goals
             /\ response' = [status |-> "ok", deleted_id |-> rid]]_vars

\* rule 1 has been deleted; the transaction it produced is stored, and so
\* are another rule, a budget and a goal
C22_Witness ==
    /\ response = [status |-> "ok", deleted_id |-> 1]
    /\ 1 \notin Ids(recurring)
    /\ recurring # {}
    /\ \E t \in transactions : t.recurring_id = Some(1)
    /\ budgets # {}
    /\ goals # {}

\* the transaction of a pass for rule r: dated at the start of the day
\* r.next_run, with the rule's amount, category and is_expense, the given
\* description, and the rule's id as back-reference
MaterializedFrom(t, r, description) ==
    /\ t.ts = <<r.next_run[1], r.next_run[2], r.next_run[3], 0>>
    /\ t.amount = r.amount
    /\ t.category = r.category
    /\ t.is_expense = r.is_expense
    /\ t.description = description
    /\ t.recurring_id = <<r.id>>

\* C23 as stated: the transaction a pass creates for a due rule is dated at
\* the rule's next_run as it was before the advance, carries exactly the
\* rule's amount, category, description and is_expense, and refers back to
\* the rule's id.
C23_CarriesRuleFields ==
    [][run_due_recurrences
       => \A r \in recurring :
             IsDue(r) => \E t \in NewTxs : MaterializedFrom(t, r, r.description)]_vars

RecurringTag == <<"[","r","e","c","u","r","r","i","n","g","]"," ">>

\* C23 (amended): the same, with the description being the rule's
\* description after the tag "[recurring] ".
C23_CarriesTaggedDescription ==
    [][run_due_recurrences
       => \A r \in recurring :
             IsDue(r) => \E t \in NewTxs :
                            MaterializedFrom(t, r, RecurringTag \o r.description)]_vars

\* a pass on 31 December has created the transaction of the rule that was
\* due on 28 December: dated 28 December, described "[recurring] rent"
C23_Witness ==
    /\ "created" \in DOMAIN response
    /\ Len(response.created) = 1
    /\ today = <<2023, 12, 31>>
    /\ \E t \in transactions :
           /\ t.recurring_id = <<response.created[1].recurring_id>>
           /\ t.ts = <<2023, 12, 28, 0>>
           /\ t.description = RecurringTag \o W_rent
           /\ t.amount = 1000

(***************************************************************************)
(* GET /api/trends                                                         *)
(***************************************************************************)
\* strftime("%b")
month_abbr ==
    <<"Jan", "Feb", "Mar", "Apr", "May", "Jun",
      "Jul", "Aug", "Sep", "Oct", "Nov", "Dec">>

\* datetime(y, m, 1).strftime("%b %Y")
strftime_b_Y(y, m) == <<month_abbr[m], " ", y>>

\* a walk that brings the month back into 1..12 and leaves the year
RECURSIVE month_back_same_year(_, _)
month_back_same_year(y, m) ==
    IF m <= 0 THEN month_back_same_year(y, m + 12) ELSE <<y, m>>

\* while m <= 0: m += 12; y -= 1
RECURSIVE month_back(_, _)
month_back(y, m) ==
    IF m <= 0 THEN month_back(y - 1, m + 12) ELSE <<y, m>>

\* the rows of a month: ts >= datetime(y, m, 1) and
\* ts <= datetime(y, m, last_day, 23, 59, 59)
rows_between(rows, y, m) ==
    LET month_start == <<y, m, 1, 0>>
        month_end == <<y, m, monthrange(y, m), 2>>
    IN  {r \in rows : TupleLE(month_start, r.ts) /\ TupleLE(r.ts, month_end)}

\* the dictionary cat: a function from the categories met to their sums
category_sums(rows) ==
    [c \in {r.category : r \in rows}
       |-> SumAmount({r \in rows : r.category = c})]

\* the answer of get_trends; the month of place k of the lists is the month
\* i = months - k months ago (amounts are whole cents, which round(x, 2)
\* leaves as they are)
trends_of(rows, months) ==
    LET ym(k) == month_back(today[1], today[2] - (months - k))
        bucket(k) == rows_between(rows, ym(k)[1], ym(k)[2])
        last_month == IF today[2] - 1 = 0 THEN 12 ELSE today[2] - 1
        last_year == IF today[2] > 1 THEN today[1] ELSE today[1] - 1
        last_rows == {r \in rows_between(rows, last_year, last_month) :
                         r.is_expense}
    IN  [status |-> "ok",
         labels |-> [k \in 1..months |-> strftime_b_Y(ym(k)[1], ym(k)[2])],
         income |-> [k \in 1..months
                       |-> SumAmount({r \in bucket(k) : ~r.is_expense})],
         expense |-> [k \in 1..months
                        |-> SumAmount({r \in bucket(k) : r.is_expense})],
         category_breakdown |-> category_sums(last_rows)]

get_trends(months) ==
    /\ response' = trends_of(transactions, months)
    /\ UNCHANGED <<tables, now, sess>>

(***************************************************************************)
(* SpecTrends: the trends of a ledger whose transactions lie at the edges  *)
(* of the months, asked for at the end of December, at the end of January  *)
(* and on the day after a leap day.                                        *)
(***************************************************************************)
\* the transactions a ledger of this specification is drawn from, in the
\* order they were added; the amounts are distinct powers of two, so that a
\* sum tells which transactions are in it
EdgeRows ==
    << [amount |-> 100, category |-> W_food, is_expense |-> TRUE,
        ts |-> <<2023, 11, 30, 3>>],
       [amount |-> 200, category |-> W_food, is_expense |-> TRUE,
        ts |-> <<2023, 12, 1, 0>>],
       [amount |-> 400, category |-> W_income, is_expense |-> FALSE,
        ts |-> <<2023, 12, 15, 1>>],
       [amount |-> 800, category |-> W_rent, is_expense |-> TRUE,
        ts |-> <<2023, 12, 31, 2>>],
       [amount |-> 1600, category |-> W_food, is_expense |-> TRUE,
        ts |-> <<2023, 12, 31, 3>>],
       [amount |-> 3200, category |-> W_income, is_expense |-> FALSE,
        ts |-> <<2024, 1, 1, 0>>],
       [amount |-> 6400, category |-> W_food, is_expense |-> TRUE,
        ts |-> <<2024, 2, 29, 1>>],
       [amount |-> 12800, category |-> W_rent, is_expense |-> TRUE,
        ts |-> <<2024, 2, 29, 3>> ] >>

\* the ledger made of the rows of EdgeRows at the places in picked, with the
\* ids 1, 2, ... in the order of the places
EdgeLedger(picked) ==
    {[id |-> Cardinality({j \in picked : j <= i}),
      amount |-> EdgeRows[i].amount, category |-> EdgeRows[i].category,
      description |-> EdgeRows[i].category, ts |-> EdgeRows[i].ts,
      is_expense |-> EdgeRows[i].is_expense, recurring_id |-> None]
        : i \in picked}

InitTrends ==
    /\ now \in {ClockInstants[i] : i \in DOMAIN ClockInstants}
    /\ \E picked \in SUBSET (DOMAIN EdgeRows) :
           /\ Cardinality(picked) <= MaxTx
           /\ \A i \in picked : TupleLE(EdgeRows[i].ts, now)
           /\ transactions = EdgeLedger(picked)
    /\ budgets = {}
    /\ goals = {}
    /\ recurring = {}
    /\ response = [status |-> "none"]
    /\ sess = [w \in Workers |-> [pc |-> "idle"]]

\* the numbers of months asked for: none, the current month alone, the
\* default of six, and more than a year
TrendMonths == {0, 1, 2, 6, 13, 14}

NextTrends ==
    \/ \E months \in TrendMonths : get_trends(months)
    \/ Tick

SpecTrends == InitTrends /\ [][NextTrends]_vars

\* the calendar month that lies back months before the month of today,
\* counted in months since year 0
MonthsAgo(back) ==
    LET n == 12 * today[1] + (today[2] - 1) - back
    IN  <<n \div 12, (n % 12) + 1>>

\* the stored transactions whose timestamp lies in the calendar month ym
InCalendarMonth(ym) ==
    {r \in transactions : r.ts[1] = ym[1] /\ r.ts[2] = ym[2]}

\* C24: get_trends(months = N) returns N labels with N income and N expense
\* sums, one per calendar month, for the N consecutive calendar months that
\* end with the current month, in chronological order; the month before
\* month 1 is month 12 of the year before, for every current month and
\* every N >= 1, N > 12 included.
C24_TrailingMonths ==
    [][\A N \in TrendMonths \ {0} :
          get_trends(N)
          => /\ response'.status = "ok"
             /\ DOMAIN response'.labels = 1..N
             /\ DOMAIN response'.income = 1..N
             /\ DOMAIN response'.expense = 1..N
             /\ \A k \in 1..N :
                   LET ym == MonthsAgo(N - k)
                   IN  /\ ym[2] \in 1..12
                       /\ response'.labels[k] = <<month_abbr[ym[2]], " ", ym[1]>>
             /\ response'.labels[N] = <<month_abbr[today[2]], " ", today[1]>>
             /\ \A k \in 1..(N - 1) :
                   response'.labels[k][1] = "Dec"
                   => /\ response'.labels[k + 1][1] = "Jan"
                      /\ response'.labels[k + 1][3] = response'.labels[k][3] + 1]_vars

\* in January 2024 the trend of fourteen months was asked for: it begins
\* with December 2022 and ends with January 2024
C24_Witness ==
    /\ today = <<2024, 1, 31>>
    /\ "labels" \in DOMAIN response
    /\ Len(response.labels) = 14
    /\ response.labels[1] = <<"Dec", " ", 2022>>
    /\ response.labels[2] = <<"Jan", " ", 2023>>
    /\ response.labels[13] = <<"Dec", " ", 2023>>
    /\ response.labels[14] = <<"Jan", " ", 2024>>

\* C25: in the trend series the last calendar day of a month is an
\* inclusive upper bound: every transaction whose timestamp lies anywhere
\* within a calendar month of the window, up to the last instant of the
\* month's last day, is counted in the bucket of that month and in no other
\* (so each sum is the sum of the transactions of its calendar month).
C25_WholeMonthCounted ==
    [][\A N \in TrendMonths \ {0} :
          get_trends(N)
          => \A k \in 1..N :
                LET inmonth == InCalendarMonth(MonthsAgo(N - k))
                IN  /\ response'.income[k]
                         = SumAmount({r \in inmonth : ~r.is_expense})
                    /\ response'.expense[k]
                         = SumAmount({r \in inmonth : r.is_expense})]_vars

\* C26: the category breakdown of get_trends covers the last completed
\* calendar month (December of the year before when the current month is
\* January) and maps each category to the sum of its expense amounts in
\* that month; income is not counted, and a category without an expense in
\* that month is absent.
C26_BreakdownOfLastMonth ==
    [][\A N \in TrendMonths :
          get_trends(N)
          => LET spent == {r \in InCalendarMonth(MonthsAgo(1)) : r.is_expense}
             IN  /\ DOMAIN response'.category_breakdown
                      = {r.category : r \in spent}
                 /\ \A c \in DOMAIN response'.category_breakdown :
                       response'.category_breakdown[c]
                         = SumAmount({r \in spent : r.category = c})]_vars

(***************************************************************************)
(* SpecFrame: commands and edits on a ledger that holds a budget, a goal   *)
(* and a recurring rule.                                                   *)
(***************************************************************************)
\* the state after POST /api/budget, POST /api/goal and POST /api/recurring,
\* one call each
InitFrame ==
    /\ transactions = {}
    /\ budgets = budget_inserted({}, W_food, 25000, "USD")
    /\ goals = {[id |-> 1, title |-> W_trip, target_amount |-> 90000,
                 start_date |-> date_of(ClockInstants[1]), end_date |-> None]}
    /\ recurring = {[id |-> 1, description |-> W_rent, amount |-> 1000,
                     category |-> W_general, is_expense |-> TRUE,
                     interval |-> "weekly", next_run |-> <<2024, 1, 6>>]}
    /\ now = ClockInstants[1]
    /\ response = [status |-> "ok", action |-> "created", recurring_id |-> 1]
    /\ sess = [w \in Workers |-> [pc |-> "idle"]]

FrameTexts ==
    {T_spent_food, T_pay_rent, T_summary, T_list, T_get_1, T_99,
     T_hello, T_delete, T_delete_1, <<>>}

\* the ids an edit is asked for
EditIds == {1, 2}

NextFrame ==
    \/ \E text \in FrameTexts : handle_command(text)
    \/ \E id \in EditIds, is_expense \in BOOLEAN :
           edit_transaction(id, W_rent, EditedAmount, is_expense)

SpecFrame == InitFrame /\ [][NextFrame]_vars

\* C27: edit_transaction on an existing id sets that transaction's
\* description, amount and is_expense to the given values and leaves its id,
\* category and timestamp, and every other stored record, unchanged.
C27_EditSetsThreeFields ==
    [][\A id \in EditIds, is_expense \in BOOLEAN :
          (/\ edit_transaction(id, W_rent, EditedAmount, is_expense)
           /\ id \in Ids(transactions))
          => /\ \E old \in transactions, new \in transactions' :
                   /\ old.id = id /\ new.id = id
                   /\ new.description = W_rent
                   /\ new.amount = EditedAmount
                   /\ new.is_expense = is_expense
                   /\ new.category = old.category
                   /\ new.ts = old.ts
                   /\ new.recurring_id = old.recurring_id
                   /\ transactions' \ {new} = transactions \ {old}
             /\ Cardinality(transactions') = Cardinality(transactions)
             /\ <<budgets, goals, recurring>>' = <<budgets, goals, recurring>>]_vars

\* the expense on food has been edited into an income described "rent" of
\* amount 7.00 and is still filed under food; the expense added after it
\* and the budget, the goal and the rule are stored as before
C27_Witness ==
    /\ response = [status |-> "ok", updated_id |-> 1]
    /\ \E t \in transactions :
           /\ t.id = 1 /\ t.description = W_rent /\ t.amount = EditedAmount
           /\ ~t.is_expense /\ t.category = W_food
    /\ \E t \in transactions : t.id = 2 /\ t.description # W_rent
    /\ budgets # {} /\ goals # {} /\ recurring # {}

\* the request was refused as invalid
InvalidInput(r) == r.status = "http_error" /\ r.code = 400

\* C30: the commands summary, list, get_by_id and unknown, and every command
\* that ends in need_amount, InvalidInput or NotFound, leave the whole ledger
\* (transactions, budgets, goals, recurring rules) unchanged; an unknown
\* command is answered with a diagnostic outcome that echoes the parsed
\* intent, not with an error (a request without text is not classified: it
\* is refused as InvalidInput).
C30_ReadOnlyCommands ==
    [][/\ \A text \in FrameTexts :
             handle_command(text)
             => /\ (\/ Classified(text) \in {"summary", "list", "get_tx", "unknown"}
                    \/ response'.status = "need_amount"
                    \/ InvalidInput(response')
                    \/ NotFound(response'))
                   => tables' = tables
                /\ (text # <<>> /\ Classified(text) = "unknown")
                   => /\ response'.status # "http_error"
                      /\ response'.parsed = [intent |-> "unknown"]
                      /\ response'.message = "Could not understand intent"
       /\ \A id \in EditIds, is_expense \in BOOLEAN :
             (/\ edit_transaction(id, W_rent, EditedAmount, is_expense)
              /\ NotFound(response'))
             => tables' = tables]_vars

\* "hello" was answered with the diagnostic outcome while two transactions,
\* a budget, a goal and a rule are stored
C30_Witness ==
    /\ response = [status |-> "error",
                   message |-> "Could not understand intent",
                   parsed |-> [intent |-> "unknown"]]
    /\ Cardinality(transactions) = 2
    /\ budgets # {} /\ goals # {} /\ recurring # {}

(***************************************************************************)
(* SpecParse: add commands whose texts hold one numeral or several.        *)
(***************************************************************************)
T_apples ==
    <<"s","p","e","n","t"," ","1","2",".","5"," ","o","n"," ","3"," ",
      "a","p","p","l","e","s">>

T_bought == <<"b","o","u","g","h","t"," ","3"," ","f","o","r"," ","4",".","5","0">>

T_pay_3_decimals == <<"p","a","y"," ","1","2",".","3","4","5">>

T_salary_comma == <<"s","a","l","a","r","y"," ","1",",","2","0","0">>

T_received == <<"r","e","c","e","i","v","e","d"," ","7","."," ","2","5">>

T_purchase_2 ==
    <<"p","u","r","c","h","a","s","e"," ","#","2"," ","f","o","r"," ","3","0">>

ParseTexts ==
    {T_spent_food, T_earned, T_apples, T_bought, T_pay_3_decimals,
     T_salary_comma, T_received, T_purchase_2, T_pay_rent}

NextParse == \E text \in ParseTexts : handle_command(text)

SpecParse == Init /\ [][NextParse]_vars

\* the first numeral of a text, in cents: the first run of decimal digits,
\* with the one or two digits that follow it after a point
FirstNumeralCents(text) ==
    LET i == CHOOSE k \in DOMAIN text :
                 /\ text[k] \in DigitChars
                 /\ \A l \in 1..(k - 1) : text[l] \notin DigitChars
        j == CHOOSE k \in i..Len(text) :
                 /\ \A l \in i..k : text[l] \in DigitChars
                 /\ k = Len(text) \/ text[k + 1] \notin DigitChars
        IsDec(k) == k <= Len(text) /\ text[k] \in DigitChars
        Point == j + 1 <= Len(text) /\ text[j + 1] = "." /\ IsDec(j + 2)
    IN  100 * NumeralValue(SubSeq(text, i, j), 0)
        + (IF Point THEN 10 * NumeralValue(<<text[j + 2]>>, 0) ELSE 0)
        + (IF Point /\ IsDec(j + 3) THEN NumeralValue(<<text[j + 3]>>, 0) ELSE 0)

\* C28: for every add command whose text holds at least one numeral, the
\* amount stored on the created transaction is the first numeral of the text
\* (digits with at most two decimals), not rounded any further, also when
\* other numerals follow it; is_expense is true for add_expense and false
\* for add_income.
C28_FirstNumeralStored ==
    [][\A text \in ParseTexts :
          (handle_command(text) /\ IsAddIntent(text) /\ HasNumeral(text))
          => \E t \in transactions' :
                /\ NewTxs = {t}
                /\ t.amount = FirstNumeralCents(text)
                /\ t.is_expense = (Classified(text) = "add")
                /\ ~t.is_expense = (Classified(text) = "add_income")
                /\ response'.amount = t.amount
                /\ response'.is_expense = t.is_expense]_vars

\* "spent 12.5 on 3 apples" is stored as an expense of 12.50 and
\* "salary 1,200" as an income of 1.00
C28_Witness ==
    /\ \E t \in transactions :
           /\ t.description = Lower(T_apples)
           /\ t.amount = 1250 /\ t.is_expense
    /\ \E t \in transactions :
           /\ t.description = Lower(T_salary_comma)
           /\ t.amount = 100 /\ ~t.is_expense

(***************************************************************************)
(* SpecSchedLive: scheduler passes, one after the other for as long as a   *)
(* pass has something to do, on one day, over rules stored before.         *)
(***************************************************************************)
\* rules that are processed by at most one pass on 31 December 2023
OnePassRules ==
    {Rule(interval, next_run) :
        interval \in {"weekly", "monthly"},
        next_run \in {<<2023, 12, 25>>, <<2023, 12, 28>>, <<2023, 12, 31>>,
                      <<2024, 1, 1>>}}

\* weekly rules that are more than a week overdue on 31 December 2023
TwoPassRules == {Rule("weekly", <<2023, 12, 20>>), Rule("weekly", <<2023, 12, 24>>)}

\* the tables of rules after one or two calls of POST /api/recurring
LiveTables ==
    {{WithId(a, 1)} : a \in OnePassRules \cup TwoPassRules}
    \cup {{WithId(a, 1), WithId(b, 2)} : a \in OnePassRules, b \in OnePassRules}

InitLive ==
    /\ transactions = {}
    /\ budgets = {}
    /\ goals = {}
    /\ recurring \in LiveTables
    /\ now = ClockInstants[1]
    /\ response = [status |-> "ok", action |-> "created",
                   recurring_id |-> Cardinality(recurring)]
    /\ sess = [w \in Workers |-> [pc |-> "idle"]]

NextLive == run_due_recurrences

\* a pass would change the state: it has a rule to process, or its answer
\* differs from the last one
PassPending ==
    LET due == due_rules(recurring, today)
    IN  /\ Cardinality(transactions) + Cardinality(due) <= MaxTx
        /\ NewId(transactions) + Cardinality(due) - 1 <= MaxId
        /\ \/ due # {}
           \/ response # [status |-> "ok", created |-> <<>>]

\* the pass is run again and again: weak fairness of the pass, with the
\* states where the pass can take a step written out as PassPending
SpecSchedLive ==
    /\ InitLive /\ [][NextLive]_vars
    /\ ([]<>~PassPending) \/ ([]<><<run_due_recurrences>>_vars)

NoRuleDue == \A r \in recurring : ~IsDue(r)

\* C29: every scheduler pass strictly increases the next_run of each rule it
\* processes and never decreases the next_run of any rule; so, with the
\* current date held fixed, repeated passes reach a state where no rule is
\* due, which lasts, and a further pass creates no transaction.
C29_PassesComeToRest ==
    /\ [][run_due_recurrences
          => \A r \in recurring :
                /\ IsDue(r) => ~OnOrBefore(RuleAfter(r).next_run, r.next_run)
                /\ OnOrBefore(r.next_run, RuleAfter(r).next_run)]_vars
    /\ <>[]NoRuleDue
    /\ [][(run_due_recurrences /\ NoRuleDue)
          => /\ transactions' = transactions
             /\ response'.created = <<>>]_vars

\* a weekly rule that was due on 20 December has been processed by two
\* passes on 31 December, is due next on 3 January, and the pass after them
\* has created nothing
C29_Witness ==
    /\ "created" \in DOMAIN response
    /\ response.created = <<>>
    /\ NoRuleDue
    /\ \E r \in recurring :
           /\ r.next_run = <<2024, 1, 3>>
           /\ Cardinality({t \in transactions : t.recurring_id = Some(r.id)}) = 2

====
